---- MODULE Spec2Model ----
(***************************************************************************)
(* secamiz0r: a frei0r filter that degrades an RGBA frame the way a noisy  *)
(* SECAM signal would.  The model follows src/secamiz0r.c: the instance    *)
(* struct, the parameter setter and getter, and f0r_update with its four   *)
(* stages per row pair, on byte-addressed buffers.                         *)
(*                                                                         *)
(* Numbers.  A double parameter is the dyadic rational n / Grid, kept as   *)
(* its numerator n; every product the setters form from such a value is    *)
(* exact in double precision, so the (int) cast is the truncation of the   *)
(* exact quotient.  The colour conversions are evaluated in exact decimal  *)
(* arithmetic and then truncated as the casts do; this is the value the    *)
(* floating-point evaluation yields unless the exact value is itself an    *)
(* integer reached through inexact products (a grey pixel gives exactly    *)
(* 128 for both chroma axes).  The frames of the model are black and       *)
(* yellow, for which no such tie occurs.                                   *)
(*                                                                         *)
(* Memory.  The buffers hold exactly width * height pixels.  An access     *)
(* past the end of a buffer is undefined behaviour; each call of           *)
(* f0r_update chooses what such an access meets (see Beyond).  A trap      *)
(* leaves no state after the call and is not modelled.                     *)
(***************************************************************************)
EXTENDS Integers, Sequences, FiniteSets, TLC

VARIABLES
    self,        \* struct secamiz0r
    src,         \* the source buffer of the latest f0r_update, byte by byte
    dst,         \* the destination buffer of the latest f0r_update
    param_out,   \* what the latest f0r_get_param_value left in *param
    last_set,    \* history: the value most recently set, per parameter
    log          \* history: the accesses and per-pair traces of the latest f0r_update

vars == <<self, src, dst, param_out, last_set, log>>

---------------------------------------------------------------------------
(* Bounds of the exploration *)

MaxWidth == 5
MaxHeight == 3
MaxFrames == 1
MaxIndex == 2

(* Doubles are multiples of 1 / Grid. *)
Grid == 2^12

(* The default of both parameters, 0.125. *)
Default == Grid \div 8

---------------------------------------------------------------------------
(* C integer arithmetic *)

Abs(x) == IF x < 0 THEN -x ELSE x

(* a / b of C: the quotient truncated toward zero. *)
TruncDiv(a, b) ==
    IF (a >= 0) = (b > 0) THEN Abs(a) \div Abs(b) ELSE -(Abs(a) \div Abs(b))

(* a % b of C: the remainder takes the sign of a. *)
CRem(a, b) == a - b * TruncDiv(a, b)

(* (int) of the floating-point value num / den. *)
IntCast(num, den) == TruncDiv(num, den)

clamp_int_low_to_high(value, a, b) ==
    IF value < a THEN b ELSE IF value > b THEN b ELSE value

clamp_int(value, a, b) ==
    IF value < a THEN a ELSE IF value > b THEN b ELSE value

clamp_byte(value) == clamp_int(value, 0, 255)

umod(a, b) == CRem(CRem(a, b) + b, b)

(* F applied to the value of x, with x evaluated once. *)
Then(x, F(_)) == CHOOSE y \in {F(v) : v \in {x}} : TRUE

---------------------------------------------------------------------------
(* juice: three xorshift steps on a 32-bit int.  The build wraps a signed  *)
(* left shift to 32 bits and shifts a negative value right arithmetically  *)
(* (both are the documented behaviour of GCC and Clang).  A word is kept   *)
(* as its two 16-bit halves.                                               *)

Bit(x, k) == (x \div 2^k) % 2

XorNibble ==
    [a \in 0..15, b \in 0..15 |->
        ((Bit(a, 0) + Bit(b, 0)) % 2)
        + 2 * ((Bit(a, 1) + Bit(b, 1)) % 2)
        + 4 * ((Bit(a, 2) + Bit(b, 2)) % 2)
        + 8 * ((Bit(a, 3) + Bit(b, 3)) % 2)]

Xor16(a, b) ==
    XorNibble[a % 16, b % 16]
    + 16 * XorNibble[(a \div 16) % 16, (b \div 16) % 16]
    + 256 * XorNibble[(a \div 256) % 16, (b \div 256) % 16]
    + 4096 * XorNibble[a \div 4096, b \div 4096]

ToWord(j) == [hi |-> (j \div 65536) % 65536, lo |-> j % 65536]

FromWord(w) == (IF w.hi >= 32768 THEN w.hi - 65536 ELSE w.hi) * 65536 + w.lo

XorWord(v, w) == [hi |-> Xor16(v.hi, w.hi), lo |-> Xor16(v.lo, w.lo)]

(* w << k, for 0 < k < 16 *)
ShiftLeft(w, k) ==
    [hi |-> (w.hi % 2^(16 - k)) * 2^k + w.lo \div 2^(16 - k),
     lo |-> (w.lo % 2^(16 - k)) * 2^k]

(* w >> 17, the sign bit shifted in *)
ShiftRight17(w) ==
    IF w.hi >= 32768
    THEN [hi |-> 65535, lo |-> 32768 + w.hi \div 2]
    ELSE [hi |-> 0, lo |-> w.hi \div 2]

juice(j) ==
    LET a == ToWord(j)
        b == XorWord(a, ShiftLeft(a, 13))
        c == XorWord(b, ShiftRight17(b))
        d == XorWord(c, ShiftLeft(c, 5))
    IN  FromWord(d)

---------------------------------------------------------------------------
(* The instance and its parameters *)

(* A mutant of set_fire_intensity: the threshold taken from x, not x * x. *)
set_fire_intensity_linear(s, fire_intensity) ==
    LET x == fire_intensity
    IN  [s EXCEPT !.fire_intensity = x,
                  !.fire_threshold = 1024 - IntCast(x, Grid \div 256),
                  !.fire_seed = IntCast(x, Grid \div 1024)]

(* x * x * 256.0 is x^2 / (Grid^2 / 256) and x * 1024.0 is x / (Grid / 1024). *)
set_fire_intensity(s, fire_intensity) ==
    LET x == fire_intensity
    IN  [s EXCEPT !.fire_intensity = x,
                  !.fire_threshold = 1024 - IntCast(x * x, (Grid * Grid) \div 256),
                  !.fire_seed = IntCast(x, Grid \div 1024)]

set_noise_intensity(s, noise_intensity) ==
    LET x == noise_intensity
    IN  [s EXCEPT !.noise_intensity = x,
                  !.luma_noise = clamp_int(IntCast(x * x, (Grid * Grid) \div 256), 16, 224),
                  !.chroma_noise = clamp_int(IntCast(x, Grid \div 256), 32, 256),
                  !.echo_offset = clamp_int(IntCast(x, Grid \div 8), 2, 16)]

(* The struct as malloc leaves it, before any field is assigned. *)
Blank ==
    [width |-> 0, height |-> 0, frame_count |-> 0,
     fire_intensity |-> 0, fire_threshold |-> 0, fire_seed |-> 0,
     noise_intensity |-> 0, luma_noise |-> 0, chroma_noise |-> 0, echo_offset |-> 0]

f0r_construct(width, height) ==
    set_noise_intensity(
        set_fire_intensity(
            [Blank EXCEPT !.width = width, !.height = height, !.frame_count = 0],
            Default),
        Default)

(* No frame has been filtered yet. *)
NoLog ==
    [src_reads |-> {}, dst_reads |-> {}, dst_writes |-> {}, pairs |-> <<>>,
     self |-> Blank, stream |-> 0, beyond |-> -1]

Constructed(width, height) ==
    /\ self = f0r_construct(width, height)
    /\ src = <<>>
    /\ dst = <<>>
    /\ param_out = [index |-> -1, value |-> 0]
    /\ last_set = [i \in {0, 1} |-> Default]
    /\ log = NoLog

(* A mutant of f0r_set_param_value: both indices reach the fire setter. *)
f0r_set_param_value_one_case(param, index) ==
    /\ self' = IF index \in {0, 1} THEN set_fire_intensity(self, param) ELSE self
    /\ last_set' = IF index \in {0, 1} THEN [last_set EXCEPT ![index] = param] ELSE last_set
    /\ UNCHANGED <<src, dst, param_out, log>>

f0r_set_param_value(param, index) ==
    /\ self' = CASE index = 0 -> set_fire_intensity(self, param)
                 [] index = 1 -> set_noise_intensity(self, param)
                 [] OTHER -> self
    /\ last_set' = IF index \in {0, 1} THEN [last_set EXCEPT ![index] = param] ELSE last_set
    /\ UNCHANGED <<src, dst, param_out, log>>

(* An index the switch does not name leaves *param as the caller had it. *)
f0r_get_param_value(index) ==
    /\ param_out' = [index |-> index,
                     value |-> CASE index = 0 -> self.fire_intensity
                                 [] index = 1 -> self.noise_intensity
                                 [] OTHER -> param_out.value]
    /\ UNCHANGED <<self, src, dst, last_set, log>>

---------------------------------------------------------------------------
(* Colour conversion.  A float triple is kept as its numerators over a     *)
(* common denominator: unpack_rgb gives bytes over 255, the mean of two    *)
(* pixels gives sums over 510.                                             *)

unpack_rgb(r, g, b) == [num |-> <<r, g, b>>, den |-> 255]

Mean(c, d) ==
    [num |-> <<c.num[1] + d.num[1], c.num[2] + d.num[2], c.num[3] + d.num[3]>>,
     den |-> 2 * c.den]

(* (uint8_t) of an int *)
Byte(value) == value % 256

y_from_rgb(rgb) ==
    Byte(IntCast(16000 * rgb.den + 65738 * rgb.num[1] + 129057 * rgb.num[2]
                     + 25064 * rgb.num[3],
                 1000 * rgb.den))

u_from_rgb(rgb) ==
    Byte(IntCast(128000 * rgb.den - 37945 * rgb.num[1] - 74494 * rgb.num[2]
                     + 112439 * rgb.num[3],
                 1000 * rgb.den))

v_from_rgb(rgb) ==
    Byte(IntCast(128000 * rgb.den + 112439 * rgb.num[1] - 94154 * rgb.num[2]
                     - 18285 * rgb.num[3],
                 1000 * rgb.den))

(* y, u and v are numerators over den; the result is <<R, G, B>>. *)
rgb_from_yuv(y, u, v, den) ==
    << clamp_byte(IntCast(298082 * y + 408583 * v - 222921 * den, 1000 * den)),
       clamp_byte(IntCast(298082 * y - 100291 * u - 208120 * v + 135576 * den, 1000 * den)),
       clamp_byte(IntCast(298082 * y + 516412 * u - 276836 * den, 1000 * den)) >>

---------------------------------------------------------------------------
(* The environment of one f0r_update call *)

(* What an access past the end of a buffer meets: -1, ordinary zero-filled *)
(* memory that keeps what is written to it; or a byte value that every     *)
(* read there returns whatever was written (memory owned and changed by    *)
(* someone else).                                                          *)
Beyond == {-1, 255}

(* rand(): a call of f0r_update draws one of these streams; the n-th call  *)
(* of rand() returns the stream's n-th value, cyclically.                  *)
RandStreams ==
    << <<0, 0, 0, 0>>,
       <<776042477, 1076237814, 672929784, 243373053>>,
       <<2340482, 662006161, 12345, 777>> >>

Streams == 1..Len(RandStreams)

rand(stream, n) == RandStreams[stream][(n % Len(RandStreams[stream])) + 1]

(* Source frames: 0 black, 1 yellow, 2 three yellow columns then black;    *)
(* alpha differs from pixel to pixel.                                      *)
Patterns == 0..2

SrcByte(pattern, width, b) ==
    LET k == b \div 4
        c == b % 4
        col == k % width
        lit == pattern = 1 \/ (pattern = 2 /\ col < 3)
    IN  IF c = 3 THEN (37 * k + 11) % 256
        ELSE IF lit /\ c < 2 THEN 255 ELSE 0

Frame(pattern, width, height) ==
    [b \in 0..(4 * width * height - 1) |-> SrcByte(pattern, width, b)]

(* Bytes the row loops can address: whole row pairs, and one pixel more    *)
(* when the width is odd.                                                  *)
Reach(width, height) == 4 * (2 * ((height + 1) \div 2) * width + (width % 2))

NoPair ==
    [even |-> 0, osc_even |-> <<>>, osc_odd |-> <<>>,
     z_even |-> <<>>, z_odd |-> <<>>, v_add |-> <<>>, u_add |-> <<>>,
     v_fire |-> <<>>, u_fire |-> <<>>, v_fire_sign |-> <<>>, u_fire_sign |-> <<>>,
     decode |-> <<>>, converted |-> {}]

(* The working state of a call.  The destination starts as zeros: every    *)
(* byte is written before it is read.                                      *)
Start(s, source, stream, beyond) ==
    [size |-> 4 * s.width * s.height,
     src |-> source,
     mem |-> [b \in 0..(Reach(s.width, s.height) - 1) |-> 0],
     beyond |-> beyond,
     stream |-> stream,
     rand_calls |-> 0,
     src_reads |-> {}, dst_reads |-> {}, dst_writes |-> {},
     pair |-> NoPair,
     pairs |-> <<>>]

SrcLoad(st, b) ==
    IF b < st.size THEN st.src[b] ELSE IF st.beyond < 0 THEN 0 ELSE st.beyond

Load(st, b) ==
    IF b < st.size \/ st.beyond < 0 THEN st.mem[b] ELSE st.beyond

---------------------------------------------------------------------------
(* Stage 1: copy_pair_as_yuv.  even and odd are the byte offsets of the    *)
(* two rows in both buffers.                                               *)

(* The four bytes of the pixel at byte offset p. *)
Pixel(p) == p..(p + 3)

(* A mutant of SrcAlpha: the byte before the alpha byte is copied. *)
SrcAlphaOffByOne(st, p) == SrcLoad(st, p + 2)

(* The alpha byte of the source pixel at byte offset p. *)
SrcAlpha(st, p) == SrcLoad(st, p + 3)

SrcRgb(st, p) == unpack_rgb(SrcLoad(st, p), SrcLoad(st, p + 1), SrcLoad(st, p + 2))

(* One pass of the loop body, for the pixel pair (i, i + 1). *)
CopyColumns(st, even, odd, i) ==
    LET e0 == even + (i + 0) * 4
        e1 == even + (i + 1) * 4
        o0 == odd + (i + 0) * 4
        o1 == odd + (i + 1) * 4
        rgb0_even == SrcRgb(st, e0)
        rgb1_even == SrcRgb(st, e1)
        rgb0_odd == SrcRgb(st, o0)
        rgb1_odd == SrcRgb(st, o1)
        rgb_even == Mean(rgb0_even, rgb1_even)
        rgb_odd == Mean(rgb0_odd, rgb1_odd)
        y0_even == y_from_rgb(rgb0_even)
        y1_even == y_from_rgb(rgb1_even)
        y0_odd == y_from_rgb(rgb0_odd)
        y1_odd == y_from_rgb(rgb1_odd)
        u == u_from_rgb(rgb_odd)
        v == v_from_rgb(rgb_even)
        touched == Pixel(e0) \cup Pixel(e1) \cup Pixel(o0) \cup Pixel(o1)
    IN  [st EXCEPT
            !.mem = [@ EXCEPT
                ![e0 + 0] = y0_even, ![e0 + 1] = v, ![e0 + 2] = 0,
                ![e0 + 3] = SrcAlpha(st, e0),
                ![e1 + 0] = y1_even, ![e1 + 1] = v, ![e1 + 2] = 0,
                ![e1 + 3] = SrcAlpha(st, e1),
                ![o0 + 0] = y0_odd, ![o0 + 1] = u, ![o0 + 2] = 0,
                ![o0 + 3] = SrcAlpha(st, o0),
                ![o1 + 0] = y1_odd, ![o1 + 1] = u, ![o1 + 2] = 0,
                ![o1 + 3] = SrcAlpha(st, o1)],
            !.src_reads = @ \cup touched,
            !.dst_writes = @ \cup touched]

RECURSIVE CopyLoop(_, _, _, _, _)
CopyLoop(s, st, even, odd, i) ==
    IF i < s.width
    THEN Then(CopyColumns(st, even, odd, i),
              LAMBDA next : CopyLoop(s, next, even, odd, i + 2))
    ELSE st

copy_pair_as_yuv(s, st, even, odd) == CopyLoop(s, st, even, odd, 0)

---------------------------------------------------------------------------
(* Stage 2.1: prefilter_pair *)

(* One pass of the loop body; r and osc hold the even and the odd row's    *)
(* random value and accumulator.  The result carries them on.              *)
PrefilterColumn(s, st, even, odd, i, r, osc) ==
    LET y_even_oscillation ==
            osc[1] + Abs(Load(st, even + i * 4 + 0) - Load(st, even + i * 4 - 4)
                         - umod(r[1], 512))
        y_odd_oscillation ==
            osc[2] + Abs(Load(st, odd + i * 4 + 0) - Load(st, odd + i * 4 - 4)
                         - umod(r[2], 512))
        mark_even == y_even_oscillation > s.fire_threshold
        mark_odd == y_odd_oscillation > s.fire_threshold
        marked == [st.mem EXCEPT
                      ![even + i * 4 + 2] = IF mark_even THEN Byte(umod(r[1], 80)) ELSE @,
                      ![odd + i * 4 + 2] = IF mark_odd THEN Byte(umod(r[2], 80)) ELSE @]
    IN  [st |-> [st EXCEPT
                    !.mem = marked,
                    !.dst_reads = @ \cup {even + i * 4 + 0, even + i * 4 - 4,
                                          odd + i * 4 + 0, odd + i * 4 - 4},
                    !.dst_writes = @ \cup (IF mark_even THEN {even + i * 4 + 2} ELSE {})
                                     \cup (IF mark_odd THEN {odd + i * 4 + 2} ELSE {}),
                    !.pair.osc_even = Append(@, y_even_oscillation),
                    !.pair.osc_odd = Append(@, y_odd_oscillation)],
         r |-> <<juice(r[1]), juice(r[2])>>,
         osc |-> <<TruncDiv(y_even_oscillation, 2), TruncDiv(y_odd_oscillation, 2)>>]

RECURSIVE PrefilterLoop(_, _, _, _, _, _, _)
PrefilterLoop(s, st, even, odd, i, r, osc) ==
    IF i < s.width
    THEN Then(PrefilterColumn(s, st, even, odd, i, r, osc),
              LAMBDA next : PrefilterLoop(s, next.st, even, odd, i + 1, next.r, next.osc))
    ELSE st

prefilter_pair(s, st, even, odd) ==
    LET r_even == rand(st.stream, st.rand_calls)
        r_odd == rand(st.stream, st.rand_calls + 1)
        y_even_oscillation == IF s.fire_seed # 0 THEN umod(r_even, s.fire_seed) ELSE 0
        y_odd_oscillation == IF s.fire_seed # 0 THEN umod(r_odd, s.fire_seed) ELSE 0
    IN  PrefilterLoop(s, [st EXCEPT !.rand_calls = @ + 2], even, odd, 1,
                      <<r_even, r_odd>>, <<y_even_oscillation, y_odd_oscillation>>)

---------------------------------------------------------------------------
(* Stage 2.2: filter_pair *)

fire_fade == 1

(* The sign of a run: the code sets it to 1 and never assigns it again.    *)
u_fire_sign == 1
v_fire_sign == 1

(* A mutant of FireStep: the mark is taken up before the running fire is   *)
(* applied, so a spark burns its own column too.                           *)
FireStepMarkFirst(chroma, fire, sign, z) ==
    LET lit == IF z > 0 THEN z ELSE fire
    IN  [chroma |-> IF lit > 0 THEN chroma + lit * sign ELSE chroma,
         add |-> IF lit > 0 THEN lit * sign ELSE 0,
         fire |-> IF lit > 0 THEN lit - fire_fade ELSE lit]

(* The fire of one chroma axis at one column: a running fire is added and  *)
(* fades, then a mark z (re)starts the run.                                *)
FireStep(chroma, fire, sign, z) ==
    LET burning == fire > 0
        faded == IF burning THEN fire - fire_fade ELSE fire
    IN  [chroma |-> IF burning THEN chroma + fire * sign ELSE chroma,
         add |-> IF burning THEN fire * sign ELSE 0,
         fire |-> IF z > 0 THEN z ELSE faded]

(* One pass of the loop body; r holds the two random values, fire the run  *)
(* lengths <<u_fire, v_fire>>.                                             *)
FilterColumn(s, st, even, odd, i, r, fire) ==
    LET y_even == Load(st, even + i * 4 + 0)
        y_odd == Load(st, odd + i * 4 + 0)
        u == Load(st, odd + i * 4 + 1) - 128
        v == Load(st, even + i * 4 + 1) - 128
        z_even == Load(st, even + i * 4 + 2)
        z_odd == Load(st, odd + i * 4 + 2)
        uf == FireStep(u, fire[1], u_fire_sign, z_odd)
        vf == FireStep(v, fire[2], v_fire_sign, z_even)
        luma == s.luma_noise > 0
        y_even_noisy == IF luma THEN y_even + CRem(r[1], s.luma_noise) ELSE y_even
        y_odd_noisy == IF luma THEN y_odd + CRem(r[2], s.luma_noise) ELSE y_odd
        chroma == s.chroma_noise > 0
        (* u * 2.f * (chroma_noise / 256.f) is exact in single precision *)
        u_noisy == IF chroma
                   THEN uf.chroma + IntCast(uf.chroma * 2 * s.chroma_noise, 256)
                            + CRem(r[2], s.chroma_noise)
                   ELSE uf.chroma
        v_noisy == IF chroma
                   THEN vf.chroma + IntCast(vf.chroma * 2 * s.chroma_noise, 256)
                            + CRem(r[1], s.chroma_noise)
                   ELSE vf.chroma
        echo == s.echo_offset >= 1 /\ i >= s.echo_offset
        y_even_echo == IF echo
                       THEN y_even_noisy
                            + TruncDiv(y_even_noisy - Load(st, even + (i - s.echo_offset) * 4), 2)
                       ELSE y_even_noisy
        y_odd_echo == IF echo
                      THEN y_odd_noisy
                           + TruncDiv(y_odd_noisy - Load(st, odd + (i - s.echo_offset) * 4), 2)
                      ELSE y_odd_noisy
    IN  [st |-> [st EXCEPT
                    !.mem = [@ EXCEPT
                        ![even + i * 4 + 0] = clamp_byte(y_even_echo),
                        ![even + i * 4 + 1] = clamp_byte(v_noisy + 128),
                        ![odd + i * 4 + 0] = clamp_byte(y_odd_echo),
                        ![odd + i * 4 + 1] = clamp_byte(u_noisy + 128)],
                    !.dst_reads = @ \cup {even + i * 4 + 0, odd + i * 4 + 0,
                                          odd + i * 4 + 1, even + i * 4 + 1,
                                          even + i * 4 + 2, odd + i * 4 + 2}
                                    \cup (IF echo
                                          THEN {even + (i - s.echo_offset) * 4,
                                                odd + (i - s.echo_offset) * 4}
                                          ELSE {}),
                    !.dst_writes = @ \cup {even + i * 4 + 0, even + i * 4 + 1,
                                           odd + i * 4 + 0, odd + i * 4 + 1},
                    !.pair.z_even = Append(@, z_even),
                    !.pair.z_odd = Append(@, z_odd),
                    !.pair.v_add = Append(@, vf.add),
                    !.pair.u_add = Append(@, uf.add),
                    !.pair.v_fire = Append(@, vf.fire),
                    !.pair.u_fire = Append(@, uf.fire),
                    !.pair.v_fire_sign = Append(@, v_fire_sign),
                    !.pair.u_fire_sign = Append(@, u_fire_sign)],
         r |-> <<juice(r[1]), juice(r[2])>>,
         fire |-> <<uf.fire, vf.fire>>]

RECURSIVE FilterLoop(_, _, _, _, _, _, _)
FilterLoop(s, st, even, odd, i, r, fire) ==
    IF i < s.width
    THEN Then(FilterColumn(s, st, even, odd, i, r, fire),
              LAMBDA next : FilterLoop(s, next.st, even, odd, i + 1, next.r, next.fire))
    ELSE st

filter_pair(s, st, even, odd) ==
    LET r_even == rand(st.stream, st.rand_calls)
        r_odd == rand(st.stream, st.rand_calls + 1)
        u_fire == 0
        v_fire == 0
    IN  FilterLoop(s, [st EXCEPT !.rand_calls = @ + 2], even, odd, 0,
                   <<r_even, r_odd>>, <<u_fire, v_fire>>)

---------------------------------------------------------------------------
(* Stage 3: convert_pair_to_rgb *)

luma_loss == 4
chroma_loss == 8

(* A mutant of TapIndex: the window is clamped to the width, not to the    *)
(* last column.                                                            *)
TapIndexToWidth(s, i, j) == clamp_int(i + j, 0, s.width)

(* The column the j-th tap of column i's window reads. *)
TapIndex(s, i, j) == clamp_int(i + j, 0, s.width - 1)

(* The sum of `taps` samples of channel c, forward from column i. *)
RECURSIVE TapSum(_, _, _, _, _, _)
TapSum(s, st, row, c, i, taps) ==
    IF taps = 0 THEN 0
    ELSE TapSum(s, st, row, c, i, taps - 1)
         + Load(st, row + 4 * TapIndex(s, i, taps - 1) + c)

(* One pass of the loop body.  The sums are kept over the denominator      *)
(* 255 * chroma_loss; the luma sum over 255 * luma_loss is scaled to it.   *)
ConvertColumn(s, st, even, odd, i) ==
    LET y_even == TapSum(s, st, even, 0, i, luma_loss)
        y_odd == TapSum(s, st, odd, 0, i, luma_loss)
        u == TapSum(s, st, odd, 1, i, chroma_loss)
        v == TapSum(s, st, even, 1, i, chroma_loss)
        den == 255 * chroma_loss
        scale == chroma_loss \div luma_loss
        rgb_even == rgb_from_yuv(y_even * scale, u, v, den)
        rgb_odd == rgb_from_yuv(y_odd * scale, u, v, den)
        luma_idx == {TapIndex(s, i, j) : j \in 0..(luma_loss - 1)}
        chroma_idx == {TapIndex(s, i, j) : j \in 0..(chroma_loss - 1)}
    IN  [st EXCEPT
            !.mem = [@ EXCEPT
                ![even + i * 4 + 0] = rgb_even[1],
                ![even + i * 4 + 1] = rgb_even[2],
                ![even + i * 4 + 2] = rgb_even[3],
                ![odd + i * 4 + 0] = rgb_odd[1],
                ![odd + i * 4 + 1] = rgb_odd[2],
                ![odd + i * 4 + 2] = rgb_odd[3]],
            !.dst_reads = @ \cup {even + 4 * idx + 0 : idx \in luma_idx}
                            \cup {odd + 4 * idx + 0 : idx \in luma_idx}
                            \cup {odd + 4 * idx + 1 : idx \in chroma_idx}
                            \cup {even + 4 * idx + 1 : idx \in chroma_idx},
            !.dst_writes = @ \cup (even + i * 4)..(even + i * 4 + 2)
                             \cup (odd + i * 4)..(odd + i * 4 + 2),
            !.pair.decode = Append(@, [luma |-> luma_idx, chroma |-> chroma_idx,
                                       converted |-> st.pair.converted]),
            !.pair.converted = @ \cup {i}]

RECURSIVE ConvertLoop(_, _, _, _, _)
ConvertLoop(s, st, even, odd, i) ==
    IF i < s.width
    THEN Then(ConvertColumn(s, st, even, odd, i),
              LAMBDA next : ConvertLoop(s, next, even, odd, i + 1))
    ELSE st

convert_pair_to_rgb(s, st, even, odd) == ConvertLoop(s, st, even, odd, 0)

---------------------------------------------------------------------------
(* f0r_update *)

(* One pass of the row loop: the four stages on rows i and i + 1. *)
UpdatePair(s, st, i) ==
    LET even == 4 * ((i + 0) * s.width)
        odd == 4 * ((i + 1) * s.width)
        copied == copy_pair_as_yuv(s, [st EXCEPT !.pair = [NoPair EXCEPT !.even = even]],
                                   even, odd)
        marked == prefilter_pair(s, copied, even, odd)
        filtered == filter_pair(s, marked, even, odd)
        converted == convert_pair_to_rgb(s, filtered, even, odd)
    IN  Then(converted, LAMBDA done : [done EXCEPT !.pairs = Append(@, done.pair)])

RECURSIVE UpdateRows(_, _, _)
UpdateRows(s, st, i) ==
    IF i < s.height
    THEN Then(UpdatePair(s, st, i), LAMBDA next : UpdateRows(s, next, i + 2))
    ELSE st

(* The whole call on a given source, random stream and memory past the end. *)
Filtered(s, source, stream, beyond) == UpdateRows(s, Start(s, source, stream, beyond), 0)

(* Calls that differ only in what lies past the buffers are one call when  *)
(* the loops never leave the buffers.                                      *)
BeyondOf(s) ==
    IF Reach(s.width, s.height) > 4 * s.width * s.height THEN Beyond ELSE {-1}

f0r_update(pattern, stream, beyond) ==
    /\ self.frame_count < MaxFrames
    /\ beyond \in BeyondOf(self)
    /\ \E source \in {Frame(pattern, self.width, self.height)} :
       \E st \in {Filtered(self, source, stream, beyond)} :
           /\ src' = source
           /\ dst' = [b \in 0..(st.size - 1) |-> st.mem[b]]
           /\ log' = [src_reads |-> st.src_reads,
                      dst_reads |-> st.dst_reads,
                      dst_writes |-> st.dst_writes,
                      pairs |-> st.pairs,
                      self |-> self,
                      stream |-> stream,
                      beyond |-> beyond]
    /\ self' = [self EXCEPT !.frame_count = @ + 1]
    /\ UNCHANGED <<param_out, last_set>>

---------------------------------------------------------------------------
(* Specifications *)

(* The parameter surface, on an empty and on a small frame, one source and *)
(* one random stream.                                                      *)
ParamValues == {-2, 0, 1200, 1300, Grid, Grid + Grid \div 2}

Init == \E w \in {0, 2} : Constructed(w, 2)

Next ==
    \/ \E v \in ParamValues, i \in 0..MaxIndex : f0r_set_param_value(v, i)
    \/ \E i \in 0..MaxIndex : f0r_get_param_value(i)
    \/ f0r_update(0, 2, -1)

Spec == Init /\ [][Next]_vars

(* The frame pipeline, on frames up to MaxWidth x MaxHeight, with both     *)
(* intensities at their default, at 0 and (fire) at 1.                     *)
Widths == {0, 1, 2, MaxWidth - 1, MaxWidth}
Heights == {0, 2, MaxHeight}

InitFrame == \E w \in Widths, h \in Heights : Constructed(w, h)

NextFrame ==
    \/ \E v \in {0, Grid} : f0r_set_param_value(v, 0)
    \/ f0r_set_param_value(0, 1)
    \/ \E p \in Patterns, r \in Streams, b \in Beyond : f0r_update(p, r, b)

SpecFrame == InitFrame /\ [][NextFrame]_vars

---------------------------------------------------------------------------
(* Claims *)

Called == self.frame_count > 0

BufferBytes == 0..(4 * self.width * self.height - 1)

PixelCount == self.width * self.height

Columns == 0..(self.width - 1)

PairIds == 1..Len(log.pairs)

(* The bytes of row r of a buffer. *)
RowBytes(r) == (4 * r * self.width)..(4 * (r + 1) * self.width - 1)

(* C1: every byte f0r_update reads from src, and reads or writes in dst, lies *)
(* inside the width * height * 4 bytes of the buffer, for every accepted size. *)
C1_AccessesInBounds ==
    (log.src_reads \cup log.dst_reads \cup log.dst_writes) \subseteq BufferBytes

(* C2: with an odd height the last row is left alone: no read of row height - 1 *)
(* of src, no write to row height - 1 of dst, and floor(height / 2) pairs done *)
(* (stated for frames that have columns).                                      *)
C2_OddHeightSkipsLastRow ==
    (Called /\ self.height % 2 = 1 /\ self.width > 0) =>
        /\ log.src_reads \cap RowBytes(self.height - 1) = {}
        /\ log.dst_writes \cap RowBytes(self.height - 1) = {}
        /\ Len(log.pairs) = self.height \div 2

Rgb(buffer) == [b \in {x \in DOMAIN buffer : x % 4 # 3} |-> buffer[b]]

Output(st) == [b \in 0..(st.size - 1) |-> st.mem[b]]

BlackSource == \A b \in DOMAIN src : b % 4 # 3 => src[b] = 0

(* C3: with both intensities 0 and a black source of even height, the RGB   *)
(* output does not depend on the random stream (any other stream gives the  *)
(* same destination) and every pixel has one flat colour.  Stated for even  *)
(* widths, where every access stays inside the buffers.                     *)
C3_ZeroIntensityIgnoresRandom ==
    (/\ Called
     /\ log.self.fire_intensity = 0
     /\ log.self.noise_intensity = 0
     /\ self.height % 2 = 0
     /\ self.width % 2 = 0
     /\ BlackSource)
    => /\ \A r \in Streams :
            Rgb(Output(Filtered(log.self, src, r, log.beyond))) = Rgb(dst)
       /\ \A k \in 0..(PixelCount - 1), c \in 0..2 : dst[4 * k + c] = dst[c]

(* C4: after f0r_update the alpha byte of every pixel of dst is the alpha    *)
(* byte of the same pixel of src.                                           *)
C4_AlphaPassedThrough ==
    Called => \A k \in 0..(PixelCount - 1) : dst[4 * k + 3] = src[4 * k + 3]

C4_Witness ==
    /\ Called
    /\ self.width = MaxWidth
    /\ self.height = MaxHeight
    /\ \A k \in 0..(PixelCount - 1) : dst[4 * k + 3] = (37 * k + 11) % 256
    /\ \E k \in 0..(PixelCount - 1) : dst[4 * k] # src[4 * k]
    /\ \E pr \in PairIds : \E c \in Columns : log.pairs[pr].z_even[c + 1] > 0

(* C5: f0r_get_param_value for index 0 or 1 returns the value most recently *)
(* set for that index, or 0.125 if none was; setting the other parameter or *)
(* running f0r_update does not change it.                                   *)
C5_GetReturnsLastSet ==
    [][\A i \in {0, 1} : f0r_get_param_value(i) => param_out'.value = last_set[i]]_vars

C5_Witness ==
    /\ Called
    /\ param_out.index = 1
    /\ param_out.value = last_set[1]
    /\ last_set[1] = 1200
    /\ last_set[0] = Grid
    /\ self.fire_intensity = Grid

(* round to nearest, halves away from zero, of num / den (den > 0) *)
Round(num, den) ==
    IF num >= 0 THEN (2 * num + den) \div (2 * den)
    ELSE -((2 * (-num) + den) \div (2 * den))

(* C6 as stated: the derived fields are the rounded formulas of the current *)
(* parameters (for parameters in [0, 1]).                                   *)
C6_DerivedFieldsRounded ==
    LET f == self.fire_intensity
        n == self.noise_intensity
    IN  (0 <= f /\ f <= Grid /\ 0 <= n /\ n <= Grid) =>
        /\ self.fire_threshold = 1024 - Round(f * f, (Grid * Grid) \div 256)
        /\ self.fire_seed = Round(f, Grid \div 1024)
        /\ self.luma_noise = clamp_int(Round(n * n, (Grid * Grid) \div 256), 16, 224)
        /\ self.chroma_noise = clamp_int(Round(n, Grid \div 256), 32, 256)
        /\ self.echo_offset = clamp_int(Round(n, Grid \div 8), 2, 16)

(* the integer part of num / den (den > 0): the fraction is dropped *)
Truncated(num, den) ==
    IF num >= 0 THEN num \div den ELSE -((-num) \div den)

(* C6, amended: in every reachable state the derived fields are the formulas *)
(* of the current parameters with each product truncated toward zero.       *)
C6_DerivedFieldsTruncated ==
    LET f == self.fire_intensity
        n == self.noise_intensity
    IN  /\ self.fire_threshold = 1024 - Truncated(f * f, (Grid * Grid) \div 256)
        /\ self.fire_seed = Truncated(f, Grid \div 1024)
        /\ self.luma_noise = clamp_int(Truncated(n * n, (Grid * Grid) \div 256), 16, 224)
        /\ self.chroma_noise = clamp_int(Truncated(n, Grid \div 256), 32, 256)
        /\ self.echo_offset = clamp_int(Truncated(n, Grid \div 8), 2, 16)

C6_Witness ==
    /\ Called
    /\ self.fire_intensity = 1200
    /\ self.fire_threshold = 1003
    /\ self.noise_intensity = 1300
    /\ self.luma_noise = 25
    /\ self.echo_offset = 2

InUnit(x) == 0 <= x /\ x <= Grid

(* C7: for noise intensities a <= b in [0, 1], set_noise_intensity gives    *)
(* luma_noise, chroma_noise and echo_offset at a no larger than at b.  Every *)
(* step from one noise intensity to another is compared, in both orders.    *)
C7_NoiseFieldsMonotone ==
    [][(InUnit(self.noise_intensity) /\ InUnit(self'.noise_intensity))
       => /\ self.noise_intensity <= self'.noise_intensity
             => /\ self.luma_noise <= self'.luma_noise
                /\ self.chroma_noise <= self'.chroma_noise
                /\ self.echo_offset <= self'.echo_offset
          /\ self'.noise_intensity <= self.noise_intensity
             => /\ self'.luma_noise <= self.luma_noise
                /\ self'.chroma_noise <= self.chroma_noise
                /\ self'.echo_offset <= self.echo_offset]_vars

C7_Witness ==
    /\ param_out.index = 1
    /\ param_out.value = 1200
    /\ self.noise_intensity = Grid
    /\ self.luma_noise = 224
    /\ self.chroma_noise = 256
    /\ self.echo_offset = 8

(* The traces of the rows of the frame: the even row of every pair, and the *)
(* odd row where the frame has one (an odd height has no row below the last). *)
RowTraces ==
    {[z |-> log.pairs[k].z_even, add |-> log.pairs[k].v_add,
      fire |-> log.pairs[k].v_fire, sign |-> log.pairs[k].v_fire_sign,
      osc |-> log.pairs[k].osc_even] : k \in PairIds}
    \cup
    {[z |-> log.pairs[k].z_odd, add |-> log.pairs[k].u_add,
      fire |-> log.pairs[k].u_fire, sign |-> log.pairs[k].u_fire_sign,
      osc |-> log.pairs[k].osc_odd] :
        k \in {j \in PairIds : log.pairs[j].even + 8 * self.width <= 4 * PixelCount}}

(* C8: with fire_intensity 0 the detector marks no spark, whatever the rows  *)
(* hold and whatever rand() returns: no accumulator exceeds fire_threshold   *)
(* and channel 2 of every pixel is still 0 when the filter reads it.         *)
C8_NoSparkAtZeroFire ==
    (Called /\ log.self.fire_intensity = 0) =>
        \A t \in RowTraces :
            /\ \A i \in 1..Len(t.osc) : t.osc[i] <= log.self.fire_threshold
            /\ \A i \in 1..Len(t.z) : t.z[i] = 0

(* No spark in the n columns after column c of the row (as far as it goes). *)
Quiet(t, c, n) == \A k \in 1..n : c + k <= Len(t.z) => t.z[c + k] = 0

(* C9: in each row of the frame the run length stays in 0..79 and the sign is *)
(* +1; a spark of strength s at column c with no spark in the next s columns  *)
(* adds s, s - 1, ..., 1 to the chroma of columns c + 1 .. c + s, adds nothing *)
(* of its own to column c (what is added there is the run left by the columns *)
(* before), and the run is at 0 after column c + s, so column c + s + 1 gets  *)
(* nothing.  Columns are counted from 1 in the traces.                        *)
C9_FireRun ==
    Called =>
        \A t \in RowTraces :
            /\ \A i \in 1..Len(t.fire) : t.fire[i] \in 0..79 /\ t.sign[i] = 1
            /\ \A c \in 1..Len(t.z) :
                (t.z[c] > 0 /\ Quiet(t, c, t.z[c])) =>
                    /\ \A k \in 1..t.z[c] :
                          c + k <= Len(t.add) => t.add[c + k] = t.z[c] - k + 1
                    /\ t.add[c] = IF c = 1 THEN 0 ELSE t.fire[c - 1]
                    /\ c + t.z[c] <= Len(t.fire) => t.fire[c + t.z[c]] = 0
                    /\ c + t.z[c] + 1 <= Len(t.add) => t.add[c + t.z[c] + 1] = 0

C9_Witness ==
    /\ Called
    /\ self.width = 5
    /\ \E t \in RowTraces :
          /\ t.z = <<0, 2, 0, 0, 0>>
          /\ t.add = <<0, 0, 2, 1, 0>>
          /\ t.fire = <<0, 2, 1, 0, 0>>

(* C10: in the decoder, for every width and column i, every column read for  *)
(* the 4-tap luma window and the 8-tap chroma window lies in i .. width - 1,  *)
(* and none of them has been converted to RGB when column i reads it.         *)
C10_DecoderWindow ==
    Called =>
        \A k \in PairIds :
            /\ Len(log.pairs[k].decode) = self.width
            /\ \A i \in Columns :
                LET d == log.pairs[k].decode[i + 1]
                IN  /\ (d.luma \cup d.chroma) \subseteq i..(self.width - 1)
                    /\ (d.luma \cup d.chroma) \cap d.converted = {}
                    /\ d.converted = 0..(i - 1)

C10_Witness ==
    /\ Called
    /\ self.width = 2
    /\ \E k \in PairIds :
          /\ log.pairs[k].decode[1] = [luma |-> {0, 1}, chroma |-> {0, 1}, converted |-> {}]
          /\ log.pairs[k].decode[2] = [luma |-> {1}, chroma |-> {1}, converted |-> {0}]

====
